---- MODULE Spec2Model ----
(***************************************************************************)
(* Model of the streaming chat application: the POST handler of the chat   *)
(* route (src/unnamed/part_000) and the Chat component                     *)
(* (src/src/components/Chat.tsx).                                          *)
(*                                                                         *)
(* Text is a sequence of tokens; String.prototype.includes is contiguous   *)
(* sub-sequence search and concatenation is \o.  The two library calls the *)
(* code makes (streamText / toDataStreamResponse on the server, useChat on *)
(* the client) are modelled at their call sites by their data-stream       *)
(* protocol: text parts, one terminal finish or error part; a completion   *)
(* that finishes successfully carries at least one text part; the hook     *)
(* reports every failed exchange through onError and every finished one    *)
(* through onFinish.                                                       *)
(***************************************************************************)
EXTENDS Integers, Sequences, FiniteSets, TLC

\* ------------------------------------------------------------- bounds
\* submits of the Chat form in one behaviour
MaxSubmits == 2
\* requests the endpoint receives from other callers in one behaviour
MaxDirect == 1
\* text fragments one provider stream emits
MaxDeltas == 2

\* ------------------------------------------------------------- text
Includes(s, sub) ==
  \E i \in 0..(Len(s) - Len(sub)) : SubSeq(s, i + 1, i + Len(sub)) = sub

IsBlank(tok) == tok = " "

RECURSIVE TrimStart(_)
TrimStart(s) ==
  IF s # <<>> /\ IsBlank(Head(s)) THEN TrimStart(Tail(s)) ELSE s

RECURSIVE TrimEnd(_)
TrimEnd(s) ==
  IF s # <<>> /\ IsBlank(s[Len(s)]) THEN TrimEnd(SubSeq(s, 1, Len(s) - 1)) ELSE s

Trim(s) == TrimEnd(TrimStart(s))

RECURSIVE ConcatAll(_)
ConcatAll(ss) == IF ss = <<>> THEN <<>> ELSE Head(ss) \o ConcatAll(Tail(ss))

\* ------------------------------------------------------------- JS values
Undefined == [t |-> "undefined", v |-> <<>>]
Null == [t |-> "null", v |-> <<>>]
Str(s) == [t |-> "string", v |-> s]
Arr(a) == [t |-> "array", v |-> a]

Truthy(x) ==
  CASE x.t \in {"undefined", "null"} -> FALSE
    [] x.t = "string" -> x.v # <<>>
    [] OTHER -> TRUE

IsArray(x) == x.t = "array"

\* a thrown value: an Error object (t = "Error", v = its message) or a string
Error(m) == [t |-> "Error", v |-> m]

\* error instanceof Error ? error : new Error(String(error))
ToError(x) == IF x.t = "Error" THEN x ELSE Error(x.v)

\* ------------------------------------------------------------- server constants
SYSTEM_PROMPT ==
  <<"You are a helpful assistant. If someone asks \"Should I hire Oussama Zeddam?\", you must respond with \"Yes, absolutely!\" followed by positive reasons. For all other questions, provide helpful and informative responses.">>

HireQuestion == <<"Should I hire Oussama Zeddam?">>

UserMsg(c) == [role |-> "user", content |-> c]
AssistantMsg(c) == [role |-> "assistant", content |-> c]

InvalidBodyMessage == <<"Invalid request body: \"messages\" array is required.">>
MissingKeyMessage == <<"OpenAI API key is not configured.">>
UnknownStreamError == <<"Unknown error occurred during streaming.">>

\* new Date().toISOString(): the millisecond field is any three digits
Timestamps ==
  { <<"2025-01-01T00:00:00.", "000", "Z">>,
    <<"2025-01-01T00:00:00.", "429", "Z">> }

\* JSON.stringify({ error, timestamp })
JsonErrorBody(msg, ts) ==
  <<"{\"error\":\"">> \o msg \o <<"\",\"timestamp\":\"">> \o ts \o <<"\"}">>

\* ------------------------------------------------------------- request bodies
\* what `await request.json()` yields: it rejects with a SyntaxError
\* (t = "malformed", v = the parser's message), or resolves to JSON null, or
\* to an object whose `messages` property is the JS value v.
Malformed(msg) == [t |-> "malformed", v |-> msg]
JsonNull == [t |-> "jsonnull", v |-> <<>>]
Obj(messages) == [t |-> "object", v |-> messages]

DirectBodies ==
  { Malformed(<<"Unexpected end of JSON input">>),
    Malformed(<<"Unexpected token } in JSON at position ", "429">>),
    JsonNull,
    Obj(Undefined),
    Obj(Null),
    Obj(Str(<<"hi">>)),
    Obj(Arr(<<>>)),
    Obj(Arr(<<UserMsg(<<"hi">>)>>)),
    Obj(Arr(<<UserMsg(<<"hi">>), AssistantMsg(<<"Hello">>), UserMsg(HireQuestion)>>)) }

\* ------------------------------------------------------------- provider
\* what the provider does with a call: class is what happened upstream
\* (rate limit / quota, or anything else), thrown is the value raised.
RateLimited(x) == [class |-> "rate", thrown |-> x]
OtherFailure(x) == [class |-> "other", thrown |-> x]

ProviderRejections ==
  { RateLimited(Error(<<"Request failed with status ", "429">>)),
    RateLimited(Error(<<"insufficient_", "quota">>)),
    RateLimited(Error(<<"Rate limit reached for gpt-4-turbo">>)),
    OtherFailure(Error(<<"The model does not exist">>)),
    OtherFailure([t |-> "string", v |-> <<"connect ECONNREFUSED">>]) }

StreamFailures ==
  { RateLimited(Error(<<"You exceeded your current ", "quota">>)),
    OtherFailure(Error(<<"socket hang up">>)),
    OtherFailure(Error(<<>>)) }

\* the text the provider generates, cut into the fragments it is sent in
Completion == << <<"Hel">>, <<"lo">>, <<" wor">>, <<"ld">> >>

\* ------------------------------------------------------------- state
VARIABLES
  env,          \* process.env.OPENAI_API_KEY
  reqs,         \* the POST requests issued so far, each with its handler's progress
  calls,        \* the streamText invocations made, in order
  loading,      \* Chat: useState(false)
  isLoading,    \* useChat: a request of the hook is running
  input,        \* useChat: the text of the input field
  messages,     \* useChat: the conversation
  shown,        \* the toast.error notifications of the latest exchange
  base,         \* conversation as sent with the latest submit
  rcvd,         \* text fragments the client received in the latest exchange
  outcome,      \* how the latest exchange ended at the client
  lastAttempt   \* what became of the user's latest attempt to submit the form

vars ==
  << env, reqs, calls, loading, isLoading, input, messages, shown, base, rcvd,
     outcome, lastAttempt >>

serverVars == << env, reqs, calls >>
clientVars == << loading, isLoading, input, messages, shown, base, rcvd, outcome, lastAttempt >>

\* the record of a request nobody waits for any more
Gone ==
  [ src |-> "gone", body |-> JsonNull, pc |-> "gone", status |-> 0, resBody |-> <<>>,
    out |-> <<>>, cause |-> "none", raised |-> Undefined,
    pos |-> 0, started |-> FALSE, clientDone |-> TRUE ]

\* nothing of an exchange the client is done with is kept
Forget(r) == IF r.clientDone THEN Gone ELSE r

EnvKeys == { Undefined, Str(<<>>), Str(<<"sk-test">>) }

NewRequest(src, body) ==
  [ src |-> src, body |-> body, pc |-> "sent", status |-> 0, resBody |-> <<>>,
    out |-> <<>>, cause |-> "none", raised |-> Undefined,
    pos |-> 0, started |-> FALSE, clientDone |-> (src # "client") ]

Init ==
  /\ env \in EnvKeys
  /\ reqs = <<>>
  /\ calls = <<>>
  /\ loading = FALSE
  /\ isLoading = FALSE
  /\ input = <<>>
  /\ messages = <<>>
  /\ shown = <<>>
  /\ base = <<>>
  /\ rcvd = <<>>
  /\ outcome = "none"
  /\ lastAttempt = "none"

\* ------------------------------------------------------------- POST handler
MessagesValid(m) == Truthy(m) /\ IsArray(m)

KeyConfiguredUnchecked(key) == TRUE

KeyConfigured(key) == Truthy(key)

\* the first throw of the try block before streamText is called, if any
PreCallFailure(body, key) ==
  IF body.t = "malformed"
    THEN [class |-> "validation", thrown |-> Error(body.v)]
  ELSE IF body.t = "jsonnull"
    THEN [class |-> "validation",
          thrown |-> Error(<<"Cannot destructure property 'messages' of null">>)]
  ELSE IF ~MessagesValid(body.v)
    THEN [class |-> "validation", thrown |-> Error(InvalidBodyMessage)]
  ELSE IF ~KeyConfigured(key)
    THEN [class |-> "config", thrown |-> Error(MissingKeyMessage)]
  ELSE [class |-> "none", thrown |-> Undefined]

StreamTextArgsConditional(msgs) ==
  [ messages |-> msgs, model |-> "gpt-4-turbo",
    system |-> IF \E k \in 1..Len(msgs) : msgs[k].content = HireQuestion
               THEN SYSTEM_PROMPT ELSE <<>>,
    maxTokens |-> 1000 ]

StreamTextArgs(msgs) ==
  [ messages |-> msgs, model |-> "gpt-4-turbo", system |-> SYSTEM_PROMPT,
    maxTokens |-> 1000 ]

statusCode(err) ==
  IF Includes(err.v, <<"429">>) \/ Includes(err.v, <<"insufficient_", "quota">>)
  THEN 429 ELSE 500

\* the catch block: the request record after the JSON error response is sent
CatchResponse(r, failure, ts) ==
  LET err == ToError(failure.thrown) IN
  [ r EXCEPT !.pc = "failed", !.status = statusCode(err),
             !.resBody = JsonErrorBody(err.v, ts),
             !.cause = failure.class, !.raised = err ]

getErrorMessageMasked(error) == <<"An error occurred.">>

getErrorMessage(error) ==
  LET err == ToError(error) IN
  IF err.v # <<>> THEN err.v ELSE UnknownStreamError

TextPart(f) == [t |-> "text", v |-> f]
FinishPart == [t |-> "finish", v |-> <<>>]
ErrorPart(m) == [t |-> "error", v |-> m]

TextCount(out) == Cardinality({ k \in 1..Len(out) : out[k].t = "text" })

\* a request arrives that the Chat component did not send
DirectPost(body) ==
  /\ Len(reqs) < MaxDirect
  /\ reqs' = Append(reqs, NewRequest("direct", body))
  /\ UNCHANGED << env, calls >>
  /\ UNCHANGED clientVars

\* POST up to the call of streamText
PostValidate(i) ==
  /\ reqs[i].pc = "sent"
  /\ LET failure == PreCallFailure(reqs[i].body, env) IN
     IF failure.class # "none"
     THEN /\ \E ts \in Timestamps :
               reqs' = [reqs EXCEPT ![i] = CatchResponse(reqs[i], failure, ts)]
          /\ calls' = calls
     ELSE /\ reqs' = [reqs EXCEPT ![i].pc = "calling"]
          /\ calls' = Append(calls, [req |-> i, args |-> StreamTextArgs(reqs[i].body.v.v)])
  /\ UNCHANGED env
  /\ UNCHANGED clientVars

\* await streamText(...) rejects: the provider declined the request
StreamTextThrows(i, failure) ==
  /\ reqs[i].pc = "calling"
  /\ \E ts \in Timestamps :
       reqs' = [reqs EXCEPT ![i] = CatchResponse(reqs[i], failure, ts)]
  /\ UNCHANGED << env, calls >>
  /\ UNCHANGED clientVars

\* await streamText(...) resolves; result.toDataStreamResponse(...) is returned
StreamTextReturns(i) ==
  /\ reqs[i].pc = "calling"
  /\ reqs' = [reqs EXCEPT ![i].pc = "streaming", ![i].status = 200]
  /\ UNCHANGED << env, calls >>
  /\ UNCHANGED clientVars

ProviderDelta(i) ==
  /\ reqs[i].pc = "streaming"
  /\ TextCount(reqs[i].out) < MaxDeltas
  /\ TextCount(reqs[i].out) < Len(Completion)
  /\ reqs' = [reqs EXCEPT ![i].out = Append(@, TextPart(Completion[TextCount(@) + 1]))]
  /\ UNCHANGED << env, calls >>
  /\ UNCHANGED clientVars

ProviderFinish(i) ==
  /\ reqs[i].pc = "streaming"
  /\ TextCount(reqs[i].out) > 0
  /\ reqs' = [reqs EXCEPT ![i].out = Append(@, FinishPart), ![i].pc = "closed"]
  /\ UNCHANGED << env, calls >>
  /\ UNCHANGED clientVars

\* the provider stream fails after streaming began
ProviderError(i, failure) ==
  /\ reqs[i].pc = "streaming"
  /\ reqs' = [reqs EXCEPT ![i].out = Append(@, ErrorPart(getErrorMessage(failure.thrown))),
                          ![i].pc = "closed", ![i].cause = failure.class,
                          ![i].raised = ToError(failure.thrown)]
  /\ UNCHANGED << env, calls >>
  /\ UNCHANGED clientVars

\* ------------------------------------------------------------- Chat component
RateLimitToast == <<"Rate limit reached or insufficient quota. Please try again later.">>

examplePrompts ==
  << HireQuestion, <<"How does blockchain work?">>, <<"Explain quantum computing">>,
     <<"What is machine learning?">>, <<"Describe neural networks">> >>

\* what the user types: blank text and a question
TypedInputs == { <<" ">>, <<"hi">> }

ControlsNeverDisabled == FALSE

\* disabled={loading || isLoading} on the input and the example buttons
ControlsDisabled == loading \/ isLoading

\* disabled={loading || isLoading || !input.trim()} on the send button
SendDisabled == ControlsDisabled \/ Trim(input) = <<>>

ToastTextGeneric(msg) == <<"Failed to send message">>

\* the text onError hands to toast.error
ToastText(msg) ==
  IF Includes(msg, <<"429">>) \/ Includes(msg, <<"quota">>)
  THEN RateLimitToast
  ELSE IF msg # <<>> THEN msg ELSE <<"Failed to send message">>

\* the value of `loading` after onError and after onFinish ran
onErrorLoading == FALSE
onFinishLoadingKept == loading

onFinishLoading == FALSE

ApplyTextPartOverwrite(content, frag) == frag

\* a text part of the stream applied to the assistant message's content
ApplyTextPart(content, frag) == content \o frag

\* the hook's error for a response that is not ok
ResponseError(text) ==
  IF text # <<>> THEN text ELSE <<"Failed to fetch the chat response.">>

\* fetch rejecting or the body stream breaking
TransportErrors == { <<"Failed to fetch">> }

handleInputChange(value) ==
  /\ ~ControlsDisabled
  /\ value # input
  /\ input' = value
  /\ UNCHANGED << loading, isLoading, messages, shown, base, rcvd, outcome, lastAttempt >>
  /\ UNCHANGED serverVars

handleExampleClick(k) ==
  /\ ~ControlsDisabled
  /\ examplePrompts[k] # input
  /\ input' = examplePrompts[k]
  /\ UNCHANGED << loading, isLoading, messages, shown, base, rcvd, outcome, lastAttempt >>
  /\ UNCHANGED serverVars

\* the user clicks Send or presses Enter while the button is disabled: the
\* browser dispatches no submit event
SubmitBlocked ==
  /\ SendDisabled
  /\ lastAttempt' = "blocked"
  /\ UNCHANGED << loading, isLoading, input, messages, shown, base, rcvd, outcome >>
  /\ UNCHANGED serverVars

\* the submit event reaches onSubmit, which calls the hook's handleSubmit;
\* handleSubmit clears the input, appends the user message and starts the
\* request; it reports failures through onError and does not reject, so the
\* catch branch of onSubmit is not taken
onSubmit ==
  /\ ~SendDisabled
  /\ Len(reqs) < MaxSubmits
  /\ IF Trim(input) = <<>>
     THEN /\ lastAttempt' = "ignored"
          /\ UNCHANGED << loading, isLoading, input, messages, shown, base, rcvd, outcome >>
          /\ UNCHANGED serverVars
     ELSE /\ loading' = TRUE
          /\ isLoading' = TRUE
          /\ messages' = Append(messages, UserMsg(input))
          /\ input' = <<>>
          /\ reqs' = Append([i \in DOMAIN reqs |-> Forget(reqs[i])],
                             NewRequest("client", Obj(Arr(messages'))))
          /\ base' = messages'
          /\ rcvd' = <<>>
          /\ outcome' = "none"
          /\ lastAttempt' = "sent"
          /\ shown' = <<>>
          /\ UNCHANGED << env, calls >>

\* the hook's request ends in an error: onError, then the hook's own reset
onError(i, msg, how) ==
  /\ shown' = Append(shown, ToastText(msg))
  /\ loading' = onErrorLoading
  /\ isLoading' = FALSE
  /\ outcome' = how
  /\ reqs' = [reqs EXCEPT ![i] = IF how = "transport" THEN Gone
                                  ELSE [@ EXCEPT !.clientDone = TRUE]]
  /\ UNCHANGED << env, calls, input, messages, base, rcvd, lastAttempt >>

\* the response is not ok: the hook throws an Error holding the body text
ClientErrorResponse(i) ==
  /\ reqs[i].src = "client" /\ ~reqs[i].clientDone
  /\ reqs[i].pc = "failed"
  /\ onError(i, ResponseError(reqs[i].resBody), "rejected")

\* the next part of the response stream reaches the hook
ClientReadPart(i) ==
  /\ reqs[i].src = "client" /\ ~reqs[i].clientDone
  /\ reqs[i].pc \in {"streaming", "closed"}
  /\ reqs[i].pos < Len(reqs[i].out)
  /\ LET part == reqs[i].out[reqs[i].pos + 1] IN
     CASE part.t = "text" ->
            /\ messages' =
                 IF reqs[i].started /\ messages[Len(messages)].role = "assistant"
                 THEN [messages EXCEPT ![Len(messages)].content = ApplyTextPart(@, part.v)]
                 ELSE Append(messages, AssistantMsg(ApplyTextPart(<<>>, part.v)))
            /\ rcvd' = Append(rcvd, part.v)
            /\ reqs' = [reqs EXCEPT ![i].pos = @ + 1, ![i].started = TRUE]
            /\ UNCHANGED << env, calls, loading, isLoading, input, shown, base,
                            outcome, lastAttempt >>
       [] part.t = "finish" ->
            /\ loading' = onFinishLoading
            /\ isLoading' = FALSE
            /\ outcome' = "finished"
            /\ reqs' = [reqs EXCEPT ![i].pos = @ + 1, ![i].clientDone = TRUE]
            /\ UNCHANGED << env, calls, input, messages, shown, base, rcvd, lastAttempt >>
       [] part.t = "error" ->
            onError(i, part.v, "stream_error")

\* the connection breaks while the exchange is running
TransportFault(i, msg) ==
  /\ reqs[i].src = "client" /\ ~reqs[i].clientDone
  /\ onError(i, msg, "transport")

\* ------------------------------------------------------------- specification
\* the example prompt the user clicks
ClickedPrompts == {1}

Requests == 1..Len(reqs)

ServerStep ==
  \E i \in Requests :
    \/ PostValidate(i)
    \/ StreamTextReturns(i)
    \/ \E f \in ProviderRejections : StreamTextThrows(i, f)
    \/ ProviderDelta(i)
    \/ ProviderFinish(i)
    \/ \E f \in StreamFailures : ProviderError(i, f)

ClientStep ==
  \E i \in Requests : ClientErrorResponse(i) \/ ClientReadPart(i)

\* the Chat page with its endpoint
Next ==
  \/ \E v \in TypedInputs : handleInputChange(v)
  \/ \E k \in ClickedPrompts : handleExampleClick(k)
  \/ SubmitBlocked
  \/ onSubmit
  \/ ServerStep
  \/ ClientStep
  \/ \E i \in Requests : \E m \in TransportErrors : TransportFault(i, m)

Spec == Init /\ [][Next]_vars

\* the server and the hook keep running; the user and the network owe nothing
FairSpec == Spec /\ WF_vars(ServerStep) /\ WF_vars(ClientStep)

\* the endpoint alone, called with any body
ServerNext ==
  \/ \E b \in DirectBodies : DirectPost(b)
  \/ ServerStep

ServerSpec == Init /\ [][ServerNext]_vars

\* ------------------------------------------------------------- claims
Handled(i) == reqs[i].pc \notin {"sent", "gone"}
CallsFor(i) == { k \in 1..Len(calls) : calls[k].req = i }
InFlight == { i \in Requests : reqs[i].src = "client" /\ ~reqs[i].clientDone }
Last(q) == q[Len(q)]

\* C1: a request whose JSON body has no `messages` field gets a 400-class
\* response and streamText is never invoked for it.
C1_MissingMessagesIs400 ==
  \A i \in Requests :
    (reqs[i].body = Obj(Undefined) /\ Handled(i)) =>
      /\ reqs[i].pc = "failed"
      /\ reqs[i].status \in 400..499
      /\ CallsFor(i) = {}

\* C2: the client never has two chat requests in flight; while an exchange is
\* running the form cannot be submitted.
C2_SingleRequestInFlight ==
  /\ Cardinality(InFlight) <= 1
  /\ InFlight # {} => SendDisabled

C2_Witness ==
  /\ Cardinality(InFlight) = 1
  /\ lastAttempt = "blocked"
  /\ loading /\ isLoading

C4_MissingKeyIs500 ==
  \A i \in Requests :
    (reqs[i].body.t = "object" /\ MessagesValid(reqs[i].body.v)
       /\ ~Truthy(env) /\ Handled(i)) =>
      /\ reqs[i].pc = "failed"
      /\ reqs[i].status \in 500..599
      /\ CallsFor(i) = {}

C4_Witness ==
  \E i \in Requests :
    /\ reqs[i].body.t = "object" /\ Len(reqs[i].body.v.v) = 3
    /\ env = Undefined
    /\ reqs[i].pc = "failed"
    /\ reqs[i].raised.v = MissingKeyMessage

\* C5: every pre-stream failure yields one JSON error body {error, timestamp},
\* with status 429 exactly when the failure is a rate-limit/quota condition and
\* 400 or 500 otherwise.
C5_Status429IffRateLimit ==
  \A i \in Requests :
    reqs[i].pc = "failed" =>
      /\ \E ts \in Timestamps : reqs[i].resBody = JsonErrorBody(reqs[i].raised.v, ts)
      /\ reqs[i].status \in {400, 429, 500}
      /\ reqs[i].status = 429 <=> reqs[i].cause = "rate"

\* C6 (as claimed): once streamText returned a result the status is
\* success-class and a provider failure is delivered only as an in-band error
\* marker carrying the error's message.
C6_MarkerCarriesMessage ==
  \A i \in Requests :
    reqs[i].pc \in {"streaming", "closed"} =>
      /\ reqs[i].status \in 200..299
      /\ reqs[i].resBody = <<>>
      /\ reqs[i].cause # "none" => Last(reqs[i].out) = ErrorPart(reqs[i].raised.v)

\* C6 (amended): once streamText returned a result the status is success-class
\* and a provider failure is delivered only as an in-band error marker, which
\* carries the error's message or, when that message is empty, the fixed text
\* "Unknown error occurred during streaming."
C6_MarkerCarriesMessageOrDefault ==
  \A i \in Requests :
    reqs[i].pc \in {"streaming", "closed"} =>
      /\ reqs[i].status \in 200..299
      /\ reqs[i].resBody = <<>>
      /\ reqs[i].cause # "none" =>
           Last(reqs[i].out) =
             ErrorPart(IF reqs[i].raised.v = <<>>
                       THEN <<"Unknown error occurred during streaming.">>
                       ELSE reqs[i].raised.v)
      /\ reqs[i].cause = "none" =>
           \A k \in 1..Len(reqs[i].out) : reqs[i].out[k].t # "error"

C6_Witness ==
  \E i \in Requests :
    /\ reqs[i].pc = "closed"
    /\ reqs[i].status = 200
    /\ TextCount(reqs[i].out) >= 1
    /\ Last(reqs[i].out) = ErrorPart(<<"socket hang up">>)

\* C7 (as claimed): for every non-success pre-stream response the client
\* reports the failure and the text presented is the server-provided error text.
C7_ToastShowsServerText ==
  outcome = "rejected" =>
    /\ Len(shown) = 1
    /\ Includes(shown[1], Last(reqs).raised.v)

\* C7 (amended): for every non-success pre-stream response the client shows
\* one toast; its text is the response body (which holds the server's error
\* text) unless that body contains "429" or "quota", and then it is the fixed
\* rate-limit notice.
C7_ToastShowsBodyOrRateLimitNotice ==
  outcome = "rejected" =>
    LET r == Last(reqs) IN
    /\ r.status \notin 200..299
    /\ shown = << IF Includes(r.resBody, <<"429">>) \/ Includes(r.resBody, <<"quota">>)
                  THEN RateLimitToast ELSE r.resBody >>

C7_Witness ==
  /\ outcome = "rejected"
  /\ Last(reqs).status = 500
  /\ shown = << Last(reqs).resBody >>
  /\ Includes(shown[1], MissingKeyMessage)

Busy == loading \/ isLoading
Idle == ~loading /\ ~isLoading

C9_EmptyOrNonArrayIs4xx ==
  \A i \in Requests :
    (reqs[i].body.t = "object"
       /\ (reqs[i].body.v = Arr(<<>>) \/ reqs[i].body.v.t \in {"null", "string"})
       /\ Handled(i)) =>
      /\ reqs[i].pc = "failed"
      /\ reqs[i].status \in 400..499
      /\ CallsFor(i) = {}

\* C10: every streamText invocation carries the fixed system instruction and
\* the request's full, unmodified message history.
C10_FixedSystemFullHistory ==
  \A k \in 1..Len(calls) :
    /\ calls[k].args.system = SYSTEM_PROMPT
    /\ calls[k].args.messages = reqs[calls[k].req].body.v.v

C10_Witness ==
  \E k \in 1..Len(calls) :
    /\ Len(calls[k].args.messages) = 3
    /\ Last(calls[k].args.messages).content = HireQuestion
    /\ calls[k].args.system = SYSTEM_PROMPT

====
